---------------------------- MODULE Spec2Model ----------------------------
(***************************************************************************)
(* Model of the Bitbucket Server adapter (src/src/server-adapter.ts) and   *)
(* of the call sites of the tool layer that drive it (src/index.ts, kept   *)
(* in the source tree as the tail of src/package.json).                    *)
(*                                                                         *)
(* Paths and base URLs are native strings handled character by character   *)
(* (Len, SubSeq, \o), so that substring tests, first-occurrence replaces   *)
(* and anchored regular expressions behave as they do in JavaScript.       *)
(* JSON values are tagged records, so that values of different JavaScript  *)
(* types can be compared.                                                  *)
(***************************************************************************)
EXTENDS Integers, Sequences, FiniteSets, TLC

VARIABLES
  baseUrl,   \* the base URL the adapter was constructed with
  isServer,  \* the dialect flag of the adapter
  hooks,     \* whether the interceptors of the adapter are registered on the client
  phase,     \* where the call through the client stands
  orig,      \* the request config as the call site issued it
  config,    \* the request config of the call, as the request hooks leave it
  fired,     \* the rules of transformUrl that returned for this call
  raw,       \* what the transport produced for the call: a response or an error
  result,    \* what the call site receives: a resolved response or a rejection
  calls,     \* the calls in flight at the same time through the installed client
  tool       \* where a run of the tool getPullRequestDiff stands, and what it read

vars == <<baseUrl, isServer, hooks, phase, orig, config, fired, raw, result, calls,
          tool>>

---------------------------------------------------------------------------
(* Bounds of the model                                                     *)

MaxReviewers == 2

\* the calls that can be in flight at the same time
MaxCalls == 2

\* the most files a diffstat page reports
MaxFiles == 52

---------------------------------------------------------------------------
(* JavaScript strings                                                      *)

Min(S) == CHOOSE m \in S : \A n \in S : m <= n

\* String.prototype.indexOf, 1-based; 0 when p does not occur in s
IndexOf(s, p) ==
  LET hits == { i \in 1..(Len(s) - Len(p) + 1) : SubSeq(s, i, i + Len(p) - 1) = p }
  IN  IF hits = {} THEN 0 ELSE Min(hits)

\* String.prototype.includes
Includes(s, p) == IndexOf(s, p) # 0

StartsWith(s, p) == Len(s) >= Len(p) /\ SubSeq(s, 1, Len(p)) = p

\* the part of s after its first n characters
Drop(s, n) == SubSeq(s, n + 1, Len(s))

\* String.prototype.replace(p, r) with a string pattern: first occurrence only
Replace(s, p, r) ==
  LET i == IndexOf(s, p)
  IN  IF i = 0 THEN s ELSE SubSeq(s, 1, i - 1) \o r \o Drop(s, i + Len(p) - 1)

\* the longest slash-free prefix of s, as [^\/]+ or [^\/]* captures it
Segment(s) ==
  LET i == IndexOf(s, "/")
  IN  IF i = 0 THEN s ELSE SubSeq(s, 1, i - 1)

\* /^<prefix>([^\/]+)$/
MatchOneSegment(url, prefix) ==
  /\ StartsWith(url, prefix)
  /\ Drop(url, Len(prefix)) # ""
  /\ ~Includes(Drop(url, Len(prefix)), "/")

\* /^\/repositories\/([^\/]+)\/([^\/]+)/ : not anchored at the end
MatchRepoPrefix(url) ==
  /\ StartsWith(url, "/repositories/")
  /\ LET rest == Drop(url, Len("/repositories/"))
         ws   == Segment(rest)
     IN  /\ ws # ""
         /\ Len(rest) > Len(ws)
         /\ Segment(Drop(rest, Len(ws) + 1)) # ""

\* url.replace(/^\/repositories\/([^\/]+)\/([^\/]+)/, '/rest/api/1.0/projects/$1/repos/$2')
ReplaceRepoPrefix(url) ==
  IF MatchRepoPrefix(url)
  THEN LET rest == Drop(url, Len("/repositories/"))
           ws   == Segment(rest)
       IN  "/rest/api/1.0/projects/" \o ws \o "/repos/" \o Drop(rest, Len(ws) + 1)
  ELSE url

\* /^\/repositories\/([^\/]+)\/([^\/]+)$/
MatchSingleRepo(url) ==
  /\ MatchRepoPrefix(url)
  /\ LET rest == Drop(url, Len("/repositories/"))
     IN  ~Includes(Drop(rest, Len(Segment(rest)) + 1), "/")

---------------------------------------------------------------------------
(* transformUrl: the ordered rules, each a test and a rewrite              *)

\* the condition of each if of transformUrl
RuleTest(rule, url) ==
  CASE rule = "repoList"        -> MatchOneSegment(url, "/repositories/")
    [] rule = "singleRepo"      -> MatchSingleRepo(url)
    [] rule = "diffstat"        -> Includes(url, "/diffstat")
    [] rule = "diff"            -> Includes(url, "/diff") /\ Includes(url, "/pullrequests/")
    [] rule = "comments"        -> Includes(url, "/pullrequests/") /\ Includes(url, "/comments")
    [] rule = "activity"        -> Includes(url, "/pullrequests/") /\ Includes(url, "/activity")
    [] rule = "pullRequests"    -> Includes(url, "/pullrequests")
    [] rule = "workspaces"      -> url = "/workspaces"
    [] rule = "singleWorkspace" -> MatchOneSegment(url, "/workspaces/")
    [] rule = "branchingModel"  -> Includes(url, "/branching-model")

\* the value each if of transformUrl returns
RuleApply(rule, url) ==
  CASE rule = "repoList"        ->
         "/rest/api/1.0/projects/" \o Drop(url, Len("/repositories/")) \o "/repos"
    [] rule = "singleRepo"      -> ReplaceRepoPrefix(url)
    [] rule = "diffstat"        ->
         Replace(ReplaceRepoPrefix(Replace(url, "/pullrequests/", "/pull-requests/")),
                 "/diffstat", "/changes")
    [] rule = "diff"            ->
         ReplaceRepoPrefix(Replace(url, "/pullrequests/", "/pull-requests/"))
    [] rule = "comments"        ->
         Replace(ReplaceRepoPrefix(Replace(url, "/pullrequests/", "/pull-requests/")),
                 "/comments", "/activities")
    [] rule = "activity"        ->
         Replace(ReplaceRepoPrefix(Replace(url, "/pullrequests/", "/pull-requests/")),
                 "/activity", "/activities")
    [] rule = "pullRequests"    ->
         ReplaceRepoPrefix(Replace(url, "/pullrequests", "/pull-requests"))
    [] rule = "workspaces"      -> "/rest/api/1.0/projects"
    [] rule = "singleWorkspace" ->
         "/rest/api/1.0/projects/" \o Drop(url, Len("/workspaces/"))
    [] rule = "branchingModel"  ->
         Replace(Replace(url, "/workspaces/", "/rest/api/1.0/projects/"),
                 "/branching-model", "/restrictions")

\* an order that tries the sub-resource rules before the anchored repository rules
RuleOrderSubresourcesFirst ==
  <<"diffstat", "diff", "comments", "activity", "pullRequests",
    "repoList", "singleRepo", "workspaces", "singleWorkspace", "branchingModel">>

\* the order in which transformUrl tries its rules
RuleOrder ==
  <<"repoList", "singleRepo", "diffstat", "diff", "comments", "activity",
    "pullRequests", "workspaces", "singleWorkspace", "branchingModel">>

RECURSIVE RunRulesFallThrough(_, _, _)
\* a rule chain in which a matching rule rewrites the path and goes on to the next rule
RunRulesFallThrough(i, url, applied) ==
  IF i > Len(RuleOrder) THEN [url |-> url, fired |-> applied]
  ELSE IF RuleTest(RuleOrder[i], url)
       THEN RunRulesFallThrough(i + 1, RuleApply(RuleOrder[i], url),
                                applied \cup {RuleOrder[i]})
       ELSE RunRulesFallThrough(i + 1, url, applied)

RECURSIVE RunRules(_, _, _)
\* the if chain of transformUrl from the i-th rule on: the first rule whose
\* test holds returns; with no match the path is returned as it is
RunRules(i, url, applied) ==
  IF i > Len(RuleOrder) THEN [url |-> url, fired |-> applied]
  ELSE IF RuleTest(RuleOrder[i], url)
       THEN [url |-> RuleApply(RuleOrder[i], url), fired |-> applied \cup {RuleOrder[i]}]
       ELSE RunRules(i + 1, url, applied)

transformUrl(url) == RunRules(1, url, {}).url

\* the rules whose return statement transformUrl(url) executes
firedRules(url) == RunRules(1, url, {}).fired

---------------------------------------------------------------------------
(* JSON values: tagged records                                             *)

JUndef   == [t |-> "undefined"]
JStr(s)  == [t |-> "string", s |-> s]
JNum(n)  == [t |-> "number", n |-> n]
JBool(b) == [t |-> "boolean", b |-> b]
JArr(a)  == [t |-> "array", a |-> a]
JObj(f)  == [t |-> "object", f |-> f]

JNull    == [t |-> "null"]

\* a function value, such as the inherited toString of an object
JFunc    == [t |-> "function"]

\* the outcome of an evaluation that throws a TypeError
Throw    == [t |-> "throw"]

\* JavaScript truthiness
Truthy(v) ==
  CASE v.t = "undefined" -> FALSE
    [] v.t = "null"      -> FALSE
    [] v.t = "string"    -> v.s # ""
    [] v.t = "number"    -> v.n # 0
    [] v.t = "boolean"   -> v.b
    [] OTHER             -> TRUE

\* a || b
Or(a, b) == IF Truthy(a) THEN a ELSE b

\* 'k' in o
HasKey(o, k) == o.t = "object" /\ k \in DOMAIN o.f

\* o.k and o?.k : undefined when o has no property k
Get(o, k) == IF HasKey(o, k) THEN o.f[k] ELSE JUndef

\* o with property k set to v, as an assignment o.k = v leaves it
Put(o, k, v) == JObj([x \in DOMAIN o.f \cup {k} |-> IF x = k THEN v ELSE o.f[x]])

\* o after delete o.k
Delete(o, k) == JObj([x \in DOMAIN o.f \ {k} |-> o.f[x]])

\* v is undefined or null: reading a property of v throws a TypeError
Nullish(v) == v.t \in {"undefined", "null"}

\* the text a template literal `${v}` interpolates
TemplateString(v) ==
  CASE v.t = "string"    -> v.s
    [] v.t = "undefined" -> "undefined"
    [] v.t = "null"      -> "null"
    [] v.t = "number"    -> ToString(v.n)
    [] v.t = "boolean"   -> IF v.b THEN "true" ELSE "false"
    [] OTHER             -> "[object Object]"

---------------------------------------------------------------------------
(* transformParams                                                         *)

\* a version of transformParams that copies pagelen to limit and keeps pagelen
transformParamsKeepPagelen(params) ==
  LET renamed == IF HasKey(params, "pagelen")
                 THEN Put(params, "limit", Get(params, "pagelen"))
                 ELSE params
  IN  IF /\ HasKey(renamed, "state")
         /\ Truthy(Get(renamed, "state"))
         /\ Get(renamed, "state") = JStr("SUPERSEDED")
      THEN Put(renamed, "state", JStr("DECLINED"))
      ELSE renamed

transformParams(params) ==
  LET renamed == IF HasKey(params, "pagelen")
                 THEN Delete(Put(params, "limit", Get(params, "pagelen")), "pagelen")
                 ELSE params
  IN  IF /\ HasKey(renamed, "state")
         /\ Truthy(Get(renamed, "state"))
         /\ Get(renamed, "state") = JStr("SUPERSEDED")
      THEN Put(renamed, "state", JStr("DECLINED"))
      ELSE renamed

---------------------------------------------------------------------------
(* transformRequestBody                                                    *)

\* url.match(/\/<name>\/([^\/]+)/)?.[1] : the segment after the first
\* "/<name>/" that is followed by a non-empty segment
Capture(url, name) ==
  LET pat  == "/" \o name \o "/"
      hits == { i \in 1..(Len(url) - Len(pat) + 1) :
                  /\ SubSeq(url, i, i + Len(pat) - 1) = pat
                  /\ Segment(Drop(url, i + Len(pat) - 1)) # "" }
  IN  IF hits = {} THEN JUndef
      ELSE JStr(Segment(Drop(url, Min(hits) + Len(pat) - 1)))

\* data.reviewers?.map(username => ({ user: { name: username } })) || []
MapReviewers(reviewers) ==
  IF reviewers.t = "array"
  THEN JArr([i \in 1..Len(reviewers.a) |->
               JObj([user |-> JObj([name |-> reviewers.a[i]])])])
  ELSE JArr(<< >>)

Ref(branch, repoSlug, projectKey) ==
  JObj([id |-> JStr("refs/heads/" \o TemplateString(branch)),
        repository |-> JObj([slug |-> repoSlug,
                             project |-> JObj([key |-> projectKey])])])

\* the object literal transformRequestBody returns for a pull-request creation
ServerPullRequest(url, data, sourceBranch, targetBranch) ==
  LET repoSlug   == Capture(url, "repos")
      projectKey == Capture(url, "projects")
  IN  JObj([title       |-> Get(data, "title"),
            description |-> Or(Get(data, "description"), JStr("")),
            state       |-> JStr("OPEN"),
            open        |-> JBool(TRUE),
            closed      |-> JBool(FALSE),
            fromRef     |-> Ref(sourceBranch, repoSlug, projectKey),
            toRef       |-> Ref(targetBranch, repoSlug, projectKey),
            reviewers   |-> MapReviewers(Get(data, "reviewers"))])

\* a version of transformRequestBody that reshapes every pull-request body,
\* whether or not it names a source branch
transformRequestBodyAlways(url, data) ==
  LET sourceBranch == Or(Get(data, "sourceBranch"),
                         Get(Get(Get(data, "source"), "branch"), "name"))
      targetBranch == Or(Or(Get(data, "targetBranch"),
                            Get(Get(Get(data, "destination"), "branch"), "name")),
                         JStr("master"))
  IN  IF Includes(url, "/pull-requests")
      THEN ServerPullRequest(url, data, sourceBranch, targetBranch)
      ELSE data

transformRequestBody(url, data) ==
  LET sourceBranch == Or(Get(data, "sourceBranch"),
                         Get(Get(Get(data, "source"), "branch"), "name"))
      targetBranch == Or(Or(Get(data, "targetBranch"),
                            Get(Get(Get(data, "destination"), "branch"), "name")),
                         JStr("master"))
  IN  IF Includes(url, "/pull-requests") /\ Truthy(sourceBranch)
      THEN ServerPullRequest(url, data, sourceBranch, targetBranch)
      ELSE data

---------------------------------------------------------------------------
(* transformRequest                                                        *)

\* an axios request config: url "" stands for a config without url
Config(method, url, params, data) ==
  [method |-> method, url |-> url, params |-> params, data |-> data,
   _originalPath |-> JUndef]

transformRequest(c) ==
  IF c.url = "" THEN c
  ELSE LET url == transformUrl(c.url)
       IN  [method        |-> c.method,
            url           |-> url,
            params        |-> IF Truthy(c.params) THEN transformParams(c.params)
                              ELSE c.params,
            data          |-> IF Truthy(c.data) /\ c.method \in {"post", "put"}
                              THEN transformRequestBody(url, c.data)
                              ELSE c.data,
            _originalPath |-> JStr(c.url)]

---------------------------------------------------------------------------
(* transformPaginatedResponse                                              *)

\* String.prototype.toLowerCase on the ASCII letters
ToLowerCase(s) ==
  LET upper == "ABCDEFGHIJKLMNOPQRSTUVWXYZ"
      lower == "abcdefghijklmnopqrstuvwxyz"
      F[i \in 0..Len(s)] ==
        IF i = 0 THEN ""
        ELSE LET c == SubSeq(s, i, i)
                 k == IndexOf(upper, c)
             IN  F[i - 1] \o (IF k = 0 THEN c ELSE SubSeq(lower, k, k))
  IN  F[Len(s)]

Uuid(id) == JStr("{" \o TemplateString(id) \o "}")

HrefOf(v) == JObj([href |-> v])

Href(text) == HrefOf(JStr(text))

\* project.key.toLowerCase() throws unless key is a string
WorkspaceThrows(project) == Nullish(project) \/ Get(project, "key").t # "string"

\* the workspace object built from a Server project
Workspace(base, project) ==
  LET href == base \o "/projects/" \o TemplateString(Get(project, "key"))
  IN  JObj([uuid       |-> Uuid(Get(project, "id")),
            name       |-> Get(project, "name"),
            slug       |-> JStr(ToLowerCase(Get(project, "key").s)),
            type       |-> JStr("workspace"),
            is_private |-> JBool(TRUE),
            links      |-> JObj([self |-> Href(href), html |-> Href(href)])])

\* repo.project.key.toLowerCase() throws unless project.key is a string
RepositoryThrows(repo) ==
  \/ Nullish(repo)
  \/ Nullish(Get(repo, "project"))
  \/ Get(Get(repo, "project"), "key").t # "string"

\* the repository object built from a Server repository
Repository(base, repo) ==
  LET project == Get(repo, "project")
      key     == Get(project, "key")
      href    == base \o "/projects/" \o TemplateString(key)
                      \o "/repos/" \o TemplateString(Get(repo, "slug"))
  IN  JObj([uuid        |-> Uuid(Get(repo, "id")),
            name        |-> Get(repo, "name"),
            slug        |-> Get(repo, "slug"),
            full_name   |-> JStr(TemplateString(key) \o "/"
                                   \o TemplateString(Get(repo, "slug"))),
            description |-> Or(Get(repo, "description"), JStr("")),
            is_private  |-> JBool(~Truthy(Get(repo, "public"))),
            type        |-> JStr("repository"),
            scm         |-> Or(Get(repo, "scmId"), JStr("git")),
            workspace   |-> JObj([uuid |-> Uuid(Get(project, "id")),
                                  name |-> Get(project, "name"),
                                  slug |-> JStr(ToLowerCase(key.s)),
                                  type |-> JStr("workspace")]),
            project     |-> JObj([uuid |-> Uuid(Get(project, "id")),
                                  key  |-> key,
                                  name |-> Get(project, "name"),
                                  type |-> JStr("project")]),
            links       |-> JObj([self  |-> Href(href),
                                  html  |-> Href(href),
                                  clone |-> Or(Get(Get(repo, "links"), "clone"),
                                               JArr(<< >>))])])

\* o.toString without a call: the own property, else the inherited function
ToStringProperty(o) == IF HasKey(o, "toString") THEN Get(o, "toString") ELSE JFunc

ChangeThrows(change) == Nullish(change)

\* the diffstat entry built from a Server change
Change(change) ==
  LET path    == Get(change, "path")
      srcPath == Get(change, "srcPath")
  IN  JObj([status        |-> Or(Get(change, "type"), JStr("modified")),
            new           |-> IF Truthy(path)
                              THEN JObj([path |-> ToStringProperty(path)]) ELSE JNull,
            old           |-> IF Truthy(srcPath)
                              THEN JObj([path |-> ToStringProperty(srcPath)]) ELSE JNull,
            lines_added   |-> Or(Get(change, "linesAdded"), JNum(0)),
            lines_removed |-> Or(Get(change, "linesRemoved"), JNum(0))])

ActivityThrows(activity) == Nullish(activity)

\* the comment built from a COMMENTED activity
Comment(activity) ==
  LET comment == Get(activity, "comment")
      user    == Get(activity, "user")
      author  == Get(comment, "author")
      text    == Or(Get(comment, "text"), JStr(""))
  IN  JObj([id         |-> Or(Get(comment, "id"), Get(activity, "id")),
            content    |-> JObj([raw |-> text, markup |-> JStr("markdown"),
                                 html |-> text]),
            user       |-> JObj([uuid         |-> Uuid(Or(Get(user, "id"),
                                                          Get(author, "id"))),
                                 display_name |-> Or(Get(user, "displayName"),
                                                     Get(author, "displayName")),
                                 account_id   |-> Or(Get(user, "name"),
                                                     Get(author, "name"))]),
            created_on |-> Or(Get(activity, "createdDate"), Get(comment, "createdDate")),
            updated_on |-> Or(Get(activity, "updatedDate"), Get(comment, "updatedDate")),
            type       |-> JStr("pullrequest_comment"),
            links      |-> JObj([self |-> Href(""), html |-> Href("")])])

ActivityUser(user) ==
  JObj([uuid         |-> Uuid(Get(user, "id")),
        display_name |-> Get(user, "displayName"),
        account_id   |-> Get(user, "name")])

\* the activity-log entry built from an activity
ActivityEntry(activity) ==
  LET update  == JObj([date   |-> Get(activity, "createdDate"),
                       author |-> ActivityUser(Get(activity, "user"))])
      comment == Get(activity, "comment")
      text    == Or(Get(comment, "text"), JStr(""))
      action  == Get(activity, "action")
  IN  IF action = JStr("COMMENTED")
      THEN JObj([update  |-> update,
                 comment |-> JObj([id         |-> Get(comment, "id"),
                                   created_on |-> Get(comment, "createdDate"),
                                   updated_on |-> Get(comment, "updatedDate"),
                                   content    |-> JObj([raw    |-> text,
                                                        markup |-> JStr("markdown"),
                                                        html   |-> text]),
                                   user       |-> ActivityUser(Get(comment, "author"))])])
      ELSE IF action \in {JStr("APPROVED"), JStr("UNAPPROVED")}
      THEN JObj([update   |-> update,
                 approval |-> JObj([date |-> Get(activity, "createdDate"),
                                    user |-> ActivityUser(Get(activity, "user"))])])
      ELSE JObj([update |-> update])

\* the activities with action COMMENTED, in their order
RECURSIVE FilterCommented(_)
FilterCommented(a) ==
  IF a = << >> THEN << >>
  ELSE IF Get(Head(a), "action") = JStr("COMMENTED")
       THEN <<Head(a)>> \o FilterCommented(Tail(a))
       ELSE FilterCommented(Tail(a))

\* a version of Activities that always returns every activity as an
\* activity-log entry
ActivitiesAll(values) ==
  IF values.t # "array" THEN Throw
  ELSE IF \E i \in 1..Len(values.a) : ActivityThrows(values.a[i]) THEN Throw
  ELSE JArr([i \in 1..Len(values.a) |-> ActivityEntry(values.a[i])])

\* the values of an activities collection: the comments when there are any,
\* else every activity as an activity-log entry
Activities(values) ==
  IF values.t # "array" THEN Throw
  ELSE IF \E i \in 1..Len(values.a) : ActivityThrows(values.a[i]) THEN Throw
  ELSE LET commented == FilterCommented(values.a)
       IN  IF Len(commented) > 0
           THEN JArr([i \in 1..Len(commented) |-> Comment(commented[i])])
           ELSE JArr([i \in 1..Len(values.a) |-> ActivityEntry(values.a[i])])

\* ref.displayId and ref.repository.project.key throw on a missing ref,
\* repository or project
RefThrows(ref) ==
  \/ Nullish(ref)
  \/ Nullish(Get(ref, "repository"))
  \/ Nullish(Get(Get(ref, "repository"), "project"))

\* pr.reviewers?.map(r => ... r.user.id ...)
ReviewersThrow(reviewers) ==
  /\ ~Nullish(reviewers)
  /\ \/ reviewers.t # "array"
     \/ \E i \in 1..Len(reviewers.a) :
          Nullish(reviewers.a[i]) \/ Nullish(Get(reviewers.a[i], "user"))

PullRequestThrows(pr) ==
  \/ Nullish(pr)
  \/ RefThrows(Get(pr, "fromRef"))
  \/ RefThrows(Get(pr, "toRef"))
  \/ ReviewersThrow(Get(pr, "reviewers"))

\* source and destination of a pull request, built from fromRef and toRef
BranchRef(ref) ==
  LET repository == Get(ref, "repository")
  IN  JObj([branch     |-> JObj([name |-> Get(ref, "displayId")]),
            repository |->
              JObj([full_name |->
                      JStr(TemplateString(Get(Get(repository, "project"), "key"))
                             \o "/" \o TemplateString(Get(repository, "slug")))])])

Reviewer(r) ==
  LET user == Get(r, "user")
  IN  JObj([uuid         |-> Uuid(Get(user, "id")),
            display_name |-> Get(user, "displayName"),
            account_id   |-> Get(user, "name"),
            approved     |-> Get(r, "approved")])

\* links.self?.[0]?.href
FirstSelfHref(pr) ==
  LET self == Get(Get(pr, "links"), "self")
  IN  IF self.t = "array" /\ Len(self.a) > 0 THEN Get(self.a[1], "href") ELSE JUndef

\* the pull request object built from a Server pull request
PullRequest(pr) ==
  LET user      == Get(Get(pr, "author"), "user")
      reviewers == Get(pr, "reviewers")
      href      == HrefOf(Or(FirstSelfHref(pr), JStr("")))
  IN  JObj([id          |-> Get(pr, "id"),
            title       |-> Get(pr, "title"),
            description |-> Or(Get(pr, "description"), JStr("")),
            state       |-> Get(pr, "state"),
            created_on  |-> Get(pr, "createdDate"),
            updated_on  |-> Get(pr, "updatedDate"),
            source      |-> BranchRef(Get(pr, "fromRef")),
            destination |-> BranchRef(Get(pr, "toRef")),
            author      |-> IF Truthy(user) THEN ActivityUser(user) ELSE JNull,
            reviewers   |-> IF reviewers.t = "array"
                            THEN JArr([i \in 1..Len(reviewers.a) |->
                                         Reviewer(reviewers.a[i])])
                            ELSE JArr(<< >>),
            links       |-> JObj([self |-> href, html |-> href])])

\* the test of each if of transformPaginatedResponse
MappingTest(mapping, url) ==
  CASE mapping = "workspaces"   -> Includes(url, "/projects") /\ ~Includes(url, "/repos")
    [] mapping = "repositories" -> Includes(url, "/repos") /\ ~Includes(url, "/pull-requests")
    [] mapping = "changes"      -> Includes(url, "/pull-requests/") /\ Includes(url, "/changes")
    [] mapping = "activities"   -> Includes(url, "/pull-requests/") /\ Includes(url, "/activities")
    [] mapping = "pullRequests" -> /\ Includes(url, "/pull-requests")
                                   /\ ~Includes(url, "/changes")
                                   /\ ~Includes(url, "/activities")

\* whether the callback of a mapping throws on an element
ElementThrows(mapping, x) ==
  CASE mapping = "workspaces"   -> WorkspaceThrows(x)
    [] mapping = "repositories" -> RepositoryThrows(x)
    [] mapping = "changes"      -> ChangeThrows(x)
    [] mapping = "pullRequests" -> PullRequestThrows(x)

\* a version of ElementMap whose repository callback copies the public flag
\* into is_private instead of negating it
ElementMapPublicFlag(mapping, base, x) ==
  CASE mapping = "workspaces"   -> Workspace(base, x)
    [] mapping = "repositories" -> Put(Repository(base, x), "is_private",
                                       Get(x, "public"))
    [] mapping = "changes"      -> Change(x)
    [] mapping = "pullRequests" -> PullRequest(x)

\* the object the callback of a mapping builds from an element
ElementMap(mapping, base, x) ==
  CASE mapping = "workspaces"   -> Workspace(base, x)
    [] mapping = "repositories" -> Repository(base, x)
    [] mapping = "changes"      -> Change(x)
    [] mapping = "pullRequests" -> PullRequest(x)

\* data.values.map(callback): Throw when values has no map method or the
\* callback throws on an element
MapArray(mapping, base, values) ==
  IF values.t # "array" THEN Throw
  ELSE IF \E i \in 1..Len(values.a) : ElementThrows(mapping, values.a[i]) THEN Throw
       ELSE JArr([i \in 1..Len(values.a) |-> ElementMap(mapping, base, values.a[i])])

\* the new data.values each if of transformPaginatedResponse assigns
MappingApply(mapping, base, values) ==
  IF mapping = "activities" THEN Activities(values)
  ELSE MapArray(mapping, base, values)

\* the order of the ifs of transformPaginatedResponse
MappingOrder == <<"workspaces", "repositories", "changes", "activities", "pullRequests">>

\* the ifs of transformPaginatedResponse from the i-th on: every mapping
\* whose test holds is applied to the values the earlier ones left
RECURSIVE RunMappings(_, _, _, _, _)
RunMappings(i, base, url, values, applied) ==
  IF i > Len(MappingOrder) THEN [values |-> values, applied |-> applied]
  ELSE IF MappingTest(MappingOrder[i], url)
       THEN LET mapped == MappingApply(MappingOrder[i], base, values)
            IN  IF mapped = Throw
                THEN [values |-> Throw, applied |-> applied \cup {MappingOrder[i]}]
                ELSE RunMappings(i + 1, base, url, mapped,
                                 applied \cup {MappingOrder[i]})
       ELSE RunMappings(i + 1, base, url, values, applied)

\* the mappings transformPaginatedResponse applies for a url
appliedMappings(base, url, data) ==
  RunMappings(1, base, url, Get(data, "values"), {}).applied

transformPaginatedResponse(base, url, data) ==
  LET values == RunMappings(1, base, url, Get(data, "values"), {}).values
  IN  IF values = Throw THEN Throw ELSE Put(data, "values", values)

---------------------------------------------------------------------------
(* transformSingleResponse                                                 *)

\* url.match(/\/projects\/[^\/]+$/)
MatchProjectEnd(url) ==
  \E i \in 1..(Len(url) - Len("/projects/") + 1) :
    /\ SubSeq(url, i, i + Len("/projects/") - 1) = "/projects/"
    /\ Drop(url, i + Len("/projects/") - 1) # ""
    /\ ~Includes(Drop(url, i + Len("/projects/") - 1), "/")

\* a version of transformSingleResponse that selects the rule by the url
\* alone, without the test of key, slug or id
transformSingleResponseByUrl(base, url, data) ==
  IF MatchProjectEnd(url)
  THEN IF WorkspaceThrows(data) THEN Throw ELSE Workspace(base, data)
  ELSE IF Includes(url, "/repos/") /\ ~Includes(url, "/pull-requests")
  THEN IF RepositoryThrows(data) THEN Throw ELSE Repository(base, data)
  ELSE IF Includes(url, "/pull-requests/")
  THEN IF PullRequestThrows(data) THEN Throw ELSE PullRequest(data)
  ELSE data

transformSingleResponse(base, url, data) ==
  IF MatchProjectEnd(url) /\ Truthy(Get(data, "key"))
  THEN IF WorkspaceThrows(data) THEN Throw ELSE Workspace(base, data)
  ELSE IF /\ Includes(url, "/repos/")
          /\ Truthy(Get(data, "slug"))
          /\ ~Includes(url, "/pull-requests")
  THEN IF RepositoryThrows(data) THEN Throw ELSE Repository(base, data)
  ELSE IF Includes(url, "/pull-requests/") /\ Truthy(Get(data, "id"))
  THEN IF PullRequestThrows(data) THEN Throw ELSE PullRequest(data)
  ELSE data

---------------------------------------------------------------------------
(* transformResponse and transformError                                    *)

\* an axios response: its data and the config of the call; the result is
\* Throw when the normalizer throws
transformResponse(base, response) ==
  IF response.config.url = "" THEN response
  ELSE LET url  == response.config.url
           data == IF Truthy(response.data) /\ Truthy(Get(response.data, "values"))
                   THEN transformPaginatedResponse(base, url, response.data)
                   ELSE IF Truthy(response.data)
                   THEN transformSingleResponse(base, url, response.data)
                   ELSE response.data
       IN  IF data = Throw THEN Throw
           ELSE [data |-> data, config |-> response.config]

\* errors[errors.length - 1]: the last entry instead of the first
Last(errors) ==
  IF errors.t = "array" /\ Len(errors.a) > 0 THEN errors.a[Len(errors.a)]
  ELSE IF errors.t = "string" /\ Len(errors.s) > 0
       THEN JStr(SubSeq(errors.s, Len(errors.s), Len(errors.s)))
  ELSE JUndef

\* errors[0]
First(errors) ==
  IF errors.t = "array" /\ Len(errors.a) > 0 THEN errors.a[1]
  ELSE IF errors.t = "string" /\ Len(errors.s) > 0 THEN JStr(SubSeq(errors.s, 1, 1))
  ELSE JUndef

\* a version of transformError that reshapes the body of every error that
\* has a response, whether or not the body has an errors field
transformErrorAlways(error) ==
  IF Truthy(Get(error, "response"))
  THEN Put(error, "response",
           Put(Get(error, "response"), "data",
               JObj([type  |-> JStr("error"),
                     error |-> JObj([message |-> JUndef, detail |-> JUndef])])))
  ELSE error

\* the error transformError rejects with; Throw when it throws instead
transformError(error) ==
  LET data == Get(Get(error, "response"), "data")
  IN  IF /\ Truthy(Get(error, "response"))
         /\ Truthy(data)
         /\ Truthy(Get(data, "errors"))
      THEN LET serverError == First(Get(data, "errors"))
           IN  IF Nullish(serverError) THEN Throw
               ELSE Put(error, "response",
                        Put(Get(error, "response"), "data",
                            JObj([type  |-> JStr("error"),
                                  error |-> JObj([message |->
                                                    Or(Get(serverError, "message"),
                                                       Get(serverError, "exceptionName")),
                                                  detail  |->
                                                    Or(Get(serverError, "context"),
                                                       Get(serverError, "message"))])])))
      ELSE error

---------------------------------------------------------------------------
(* Inputs: canonical paths, parameters and bodies of the calls             *)

\* the base URLs of the configuration: the Cloud API, a Server host, and a
\* Server host whose URL has the Cloud name in its path
BaseUrls ==
  {"https://api.bitbucket.org/2.0", "https://bitbucket.example.com",
   "https://git.example.com/bitbucket.org"}

\* workspace, repository and pull-request segments: plain names, and names
\* that contain the literals the rules of transformUrl and the mappings of
\* transformPaginatedResponse test for
WsNames   == {"ws1", "pullrequests", "repos"}
RepoNames == {"repo1", "diff", "diffstat", "comments", "activity", "changes"}
PrIds     == {"5", "comments"}

Branches  == {"feature", "main"}
Usernames == {"alice", "bob"}

RepoPath(ws, r) == "/repositories/" \o ws \o "/" \o r

PrPath(ws, r, n) == RepoPath(ws, r) \o "/pullrequests/" \o n

\* the sub-resources of a pull request the tools address
PrSubresources ==
  {"", "/diffstat", "/diff", "/comments", "/activity", "/commits",
   "/approve", "/decline", "/merge"}

RepoPaths       == { RepoPath(ws, r) : ws \in WsNames, r \in RepoNames }
PrCollections   == { p \o "/pullrequests" : p \in RepoPaths }
PrElements      == { p \o "/pullrequests/" \o n : p \in RepoPaths, n \in PrIds }
PrPaths         == { p \o sub : p \in PrElements, sub \in PrSubresources }
BranchingPaths  ==
  { p \o sub : p \in RepoPaths,
               sub \in {"/branching-model", "/branching-model/settings",
                        "/effective-branching-model"} }
WorkspacePaths  ==
  {"/workspaces"} \cup { "/workspaces/" \o ws : ws \in WsNames }
    \cup { "/workspaces/" \o ws \o "/projects/PRJ" \o sub :
             ws \in WsNames,
             sub \in {"/branching-model", "/branching-model/settings"} }

CanonicalPaths ==
  { "/repositories/" \o ws : ws \in WsNames } \cup RepoPaths \cup PrCollections
    \cup PrPaths \cup BranchingPaths \cup WorkspacePaths \cup {"/user", ""}

\* the paths that calls with parameters address
ParamPaths ==
  {"/repositories/ws1", "/repositories/ws1/repo1/pullrequests",
   "/repositories/ws1/repo1/pullrequests/5/diffstat", "/workspaces", "/user", ""}

\* the paths that calls with a body address
BodyPaths ==
  PrCollections
    \cup { PrPath(ws, "repo1", "5") \o sub :
             ws \in {"ws1", "repos"}, sub \in {"", "/decline", "/merge"} }
    \cup {"/repositories/ws1/repo1/branching-model/settings"}

ParamsSet ==
  { JUndef,
    JObj([limit |-> JNum(10)]),
    JObj([pagelen |-> JNum(25)]),
    JObj([pagelen |-> JNum(25), limit |-> JNum(10), q |-> JStr("x")]),
    JObj([state |-> JStr("SUPERSEDED"), limit |-> JNum(10)]),
    JObj([state |-> JStr("OPEN"), pagelen |-> JNum(25)]),
    JObj([state |-> JStr("DECLINED")]),
    JObj([state |-> JUndef, limit |-> JNum(10)]) }

BranchObj(b) == JObj([branch |-> JObj([name |-> JStr(b)])])

BodySet ==
  { JUndef,
    JObj(<< >>),
    JObj([title |-> JStr("T"), description |-> JStr("D")]),
    JObj([message |-> JStr("M"), merge_strategy |-> JStr("squash")]),
    JObj([title |-> JStr("T"), sourceBranch |-> JStr("feature"),
          targetBranch |-> JStr("main")]),
    JObj([title |-> JStr("T"), sourceBranch |-> JStr("feature"),
          reviewers |-> JArr(<<JStr("alice"), JStr("bob")>>)]),
    JObj([title |-> JStr("T"), description |-> JStr("D"),
          source |-> BranchObj("feature"), destination |-> BranchObj("main")]),
    JObj([title |-> JStr("T"), source |-> BranchObj("main")]),
    JObj([title |-> JStr("T"), destination |-> BranchObj("main")]) }

\* the calls made through the client: reads of every canonical path, reads
\* with every parameter object, and posts and puts with every body
Requests ==
  { Config("get", u, JUndef, JUndef) : u \in CanonicalPaths }
    \cup { Config("get", u, p, JUndef) : u \in ParamPaths, p \in ParamsSet }
    \cup { Config(m, u, JUndef, d) :
             m \in {"post", "put"}, u \in BodyPaths, d \in BodySet }

\* payloads of the Server backend
ServerProject == JObj([id |-> JNum(2), key |-> JStr("PRJ"), name |-> JStr("Proj")])

ServerRepo ==
  JObj([id |-> JNum(1), slug |-> JStr("r"), name |-> JStr("R"),
        project |-> ServerProject, public |-> JBool(FALSE)])

\* a public repository of another project
ServerRepoPublic ==
  JObj([id |-> JNum(3), slug |-> JStr("pub"), name |-> JStr("Pub"),
        project |-> JObj([id |-> JNum(4), key |-> JStr("OSS"), name |-> JStr("Open")]),
        public |-> JBool(TRUE)])

ServerUser(n) == JObj([id |-> JNum(n), name |-> JStr("u"), displayName |-> JStr("U")])

ServerRef(branch) ==
  JObj([id |-> JStr("refs/heads/" \o branch), displayId |-> JStr(branch),
        repository |-> JObj([slug |-> JStr("r"), project |-> JObj([key |-> JStr("PRJ")])])])

ServerPr ==
  JObj([id |-> JNum(5), title |-> JStr("T"), state |-> JStr("OPEN"),
        fromRef |-> ServerRef("feature"), toRef |-> ServerRef("main"),
        author |-> JObj([user |-> ServerUser(7)]),
        reviewers |-> JArr(<<JObj([user |-> ServerUser(8), approved |-> JBool(TRUE)])>>)])

ServerChange ==
  JObj([type |-> JStr("MODIFY"), path |-> JObj([toString |-> JStr("src/a.ts")])])

ServerActivity(action) ==
  IF action = "COMMENTED"
  THEN JObj([id |-> JNum(11), action |-> JStr(action), user |-> ServerUser(7),
             comment |-> JObj([id |-> JNum(12), text |-> JStr("hi"),
                               author |-> ServerUser(7)])])
  ELSE JObj([id |-> JNum(11), action |-> JStr(action), user |-> ServerUser(7)])

\* the activity of the comment n on a pull request
ServerCommented(n) ==
  JObj([id |-> JNum(n + 100), action |-> JStr("COMMENTED"), user |-> ServerUser(7),
        comment |-> JObj([id |-> JNum(n), text |-> JStr("hi"),
                          author |-> ServerUser(7)])])

\* a commit of a pull request: no fromRef, toRef or project
ServerCommit ==
  JObj([id |-> JStr("abc123"), displayId |-> JStr("abc"), message |-> JStr("fix")])

Page(values) == JObj([values |-> JArr(values), isLastPage |-> JBool(TRUE)])

\* the payloads the transport delivers with a response
Payloads ==
  { JUndef,
    JStr("diff --git a/src/a.ts b/src/a.ts"),
    JObj([name |-> JStr("x")]),
    ServerProject,
    ServerRepo,
    ServerPr,
    JObj([id |-> JNum(5), title |-> JStr("T")]),
    Page(<< >>),
    Page(<<ServerProject>>),
    Page(<<ServerRepo>>),
    ServerRepoPublic,
    Page(<<ServerRepoPublic, ServerRepo>>),
    Page(<<ServerPr>>),
    Page(<<ServerChange>>),
    Page(<<ServerCommit>>),
    Page(<<ServerCommented(22), ServerActivity("APPROVED"),
           ServerCommented(21)>>),
    Page(<<ServerActivity("APPROVED"), ServerActivity("UNAPPROVED"),
           ServerActivity("OPENED")>>) }

ErrorWith(data) ==
  JObj([message |-> JStr("Request failed"), response |-> JObj([data |-> data])])

\* the errors the transport fails a call with
Errors ==
  { JObj([message |-> JStr("Network Error")]),
    ErrorWith(JUndef),
    ErrorWith(JObj([message |-> JStr("not found")])),
    ErrorWith(JObj([errors |-> JArr(<<JObj([message |-> JStr("X"),
                                            context |-> JStr("Y")])>>)])),
    ErrorWith(JObj([errors |-> JArr(<<JObj([exceptionName |-> JStr("E")]),
                                      JObj([message |-> JStr("Z")])>>)])),
    ErrorWith(JObj([errors |-> JArr(<<JObj([message |-> JStr("Z")])>>)])),
    ErrorWith(JObj([errors |-> JArr(<<JObj([message |-> JStr(""),
                                            exceptionName |-> JStr("E")])>>)])),
    ErrorWith(JObj([errors |-> JArr(<< >>)])) }

RECURSIVE SeqsUpTo(_, _)
\* the sequences over S of length at most n
SeqsUpTo(S, n) ==
  IF n = 0 THEN {<< >>}
  ELSE LET shorter == SeqsUpTo(S, n - 1)
       IN  shorter \cup { Append(q, x) : q \in shorter, x \in S }

---------------------------------------------------------------------------
(* The adapter and one call through the client                             *)

NoConfig == Config("", "", JUndef, JUndef)

None == [kind |-> "none"]

CallIds == 1..MaxCalls

\* a slot with no call in flight
IdleCall ==
  [phase |-> "idle", orig |-> NoConfig, config |-> NoConfig, raw |-> None,
   result |-> None]

\* no run of getPullRequestDiff is under way
IdleTool == [pc |-> "idle"]

\* constructor of BitbucketServerAdapter
Init ==
  /\ baseUrl \in BaseUrls
  /\ isServer = ~Includes(baseUrl, "bitbucket.org")
  /\ hooks = FALSE
  /\ phase = "constructed"
  /\ orig = NoConfig
  /\ config = NoConfig
  /\ fired = {}
  /\ raw = None
  /\ result = None
  /\ calls = [i \in CallIds |-> IdleCall]
  /\ tool = IdleTool

\* an install without the early return for the Cloud dialect
installAlways ==
  /\ phase = "constructed"
  /\ hooks' = TRUE
  /\ phase' = "idle"
  /\ UNCHANGED <<baseUrl, isServer, orig, config, fired, raw, result, calls, tool>>

install ==
  /\ phase = "constructed"
  /\ hooks' = isServer
  /\ phase' = "idle"
  /\ UNCHANGED <<baseUrl, isServer, orig, config, fired, raw, result, calls, tool>>

\* axios hands the config c of a call to the interceptor chain
request(c) ==
  /\ phase = "idle"
  /\ orig' = c
  /\ config' = c
  /\ fired' = {}
  /\ phase' = "issued"
  /\ UNCHANGED <<baseUrl, isServer, hooks, raw, result, calls, tool>>

\* this.api.get / post / put at a call site
call ==
  /\ phase = "idle"
  /\ \E c \in Requests : request(c)

\* the body createPullRequest posts
createPullRequestBody(title, description, sourceBranch, targetBranch, reviewers) ==
  JObj([title       |-> JStr(title),
        description |-> JStr(description),
        source      |-> BranchObj(sourceBranch),
        destination |-> BranchObj(targetBranch),
        reviewers   |-> JArr([i \in 1..Len(reviewers) |->
                                JObj([username |-> JStr(reviewers[i])])]),
        close_source_branch |-> JBool(TRUE)])

\* the tool method createPullRequest: one post of the body it builds
createPullRequest(workspace, repo_slug, sourceBranch, targetBranch, reviewers) ==
  /\ phase = "idle"
  /\ request(Config("post", RepoPath(workspace, repo_slug) \o "/pullrequests", JUndef,
                    createPullRequestBody("T", "D", sourceBranch, targetBranch,
                                          reviewers)))

\* the tool method unapprovePullRequest: one delete of the approval
unapprovePullRequest(workspace, repo_slug, pull_request_id) ==
  /\ phase = "idle"
  /\ request(Config("delete",
                    PrPath(workspace, repo_slug, pull_request_id) \o "/approve",
                    JUndef, JUndef))

\* the request interceptors run, then the transport sends the config
dispatchRequest ==
  /\ phase = "issued"
  /\ config' = IF hooks THEN transformRequest(config) ELSE config
  /\ fired' = IF hooks /\ config.url # "" THEN firedRules(config.url) ELSE {}
  /\ phase' = "sent"
  /\ UNCHANGED <<baseUrl, isServer, hooks, orig, raw, result, calls, tool>>

\* the transport completes the call with a response; the response
\* interceptors run and the call site gets their result, a rejection with
\* the TypeError when the interceptor throws
respond ==
  /\ phase = "sent"
  /\ \E payload \in Payloads :
       LET response == [data |-> payload, config |-> config]
           hooked   == IF hooks THEN transformResponse(baseUrl, response) ELSE response
       IN  /\ raw' = [kind |-> "response", value |-> response]
           /\ result' = IF hooked = Throw
                        THEN [kind |-> "rejected", value |-> Throw]
                        ELSE [kind |-> "resolved", value |-> hooked]
  /\ phase' = "done"
  /\ UNCHANGED <<baseUrl, isServer, hooks, orig, config, fired, calls, tool>>

\* the transport fails the call with an error; the error interceptors run
\* and the call site gets the rejection
fail ==
  /\ phase = "sent"
  /\ \E error \in Errors :
       /\ raw' = [kind |-> "error", value |-> error]
       /\ result' = [kind |-> "rejected",
                     value |-> IF hooks THEN transformError(error) ELSE error]
  /\ phase' = "done"
  /\ UNCHANGED <<baseUrl, isServer, hooks, orig, config, fired, calls, tool>>

\* the call is over; its config, response and error are dropped
complete ==
  /\ phase = "done"
  /\ phase' = "idle"
  /\ orig' = NoConfig
  /\ config' = NoConfig
  /\ fired' = {}
  /\ raw' = None
  /\ result' = None
  /\ UNCHANGED <<baseUrl, isServer, hooks, calls, tool>>

Next ==
  \/ install
  \/ call
  \/ \E ws \in WsNames, r \in RepoNames, s \in Branches,
        rv \in SeqsUpTo(Usernames, MaxReviewers) :
       createPullRequest(ws, r, s, "main", rv)
  \/ \E ws \in WsNames, r \in RepoNames, n \in PrIds :
       unapprovePullRequest(ws, r, n)
  \/ dispatchRequest
  \/ respond
  \/ fail
  \/ complete

Spec == Init /\ [][Next]_vars

---------------------------------------------------------------------------
(* Several calls in flight through one client.  A hook is a synchronous   *)
(* function, so it runs to its end before the next one starts; the hooks  *)
(* of different calls interleave in any order.                             *)

\* the calls issued while others are in flight
ConcurrentRequests ==
  { Config("get", "/repositories/ws1", JUndef, JUndef),
    Config("get", "/repositories/ws1/repo1/pullrequests/5/diffstat",
           JObj([pagelen |-> JNum(25)]), JUndef),
    Config("post", "/repositories/ws1/repo1/pullrequests", JUndef,
           JObj([title |-> JStr("T"), sourceBranch |-> JStr("feature")])) }

ConcurrentPayloads == {Page(<<ServerRepo>>), Page(<<ServerChange>>), ServerPr}

ConcurrentErrors ==
  { JObj([message |-> JStr("Network Error")]),
    ErrorWith(JObj([errors |-> JArr(<<JObj([message |-> JStr("X"),
                                            context |-> JStr("Y")])>>)])) }

\* the config the request interceptors leave: the one registered by install,
\* when it is registered
requestInterceptors(c) == IF hooks THEN transformRequest(c) ELSE c

\* what a call site gets for a response, through the response interceptor
\* registered by install, when it is registered
responseInterceptors(response) ==
  LET hooked == IF hooks THEN transformResponse(baseUrl, response) ELSE response
  IN  IF hooked = Throw THEN [kind |-> "rejected", value |-> Throw]
      ELSE [kind |-> "resolved", value |-> hooked]

\* what a call site gets for an error, through the error interceptor
\* registered by install, when it is registered
errorInterceptors(error) ==
  [kind |-> "rejected", value |-> IF hooks THEN transformError(error) ELSE error]

\* the calls with call i replaced by c
WithCall(i, c) == [j \in CallIds |-> IF j = i THEN c ELSE calls[j]]

\* a call site issues a call while the slot i is free
issue(i) ==
  /\ phase = "idle"
  /\ calls[i].phase = "idle"
  /\ \E c \in ConcurrentRequests :
       calls' = WithCall(i, [phase |-> "issued", orig |-> c, config |-> c,
                             raw |-> None, result |-> None])
  /\ UNCHANGED <<baseUrl, isServer, hooks, phase, orig, config, fired, raw, result, tool>>

\* a request interceptor that keeps one config for the client: it rewrites
\* the config of every call that waits for its interceptor
requestInterceptorShared(i) ==
  /\ calls[i].phase = "issued"
  /\ calls' = [j \in CallIds |->
                IF calls[j].phase = "issued"
                THEN [phase |-> "sent", orig |-> calls[j].orig,
                      config |-> requestInterceptors(calls[j].config),
                      raw |-> None, result |-> None]
                ELSE calls[j]]
  /\ UNCHANGED <<baseUrl, isServer, hooks, phase, orig, config, fired, raw, result, tool>>

\* the request interceptors run on the config of call i
requestInterceptor(i) ==
  /\ calls[i].phase = "issued"
  /\ calls' = WithCall(i, [phase |-> "sent", orig |-> calls[i].orig,
                           config |-> requestInterceptors(calls[i].config),
                           raw |-> None, result |-> None])
  /\ UNCHANGED <<baseUrl, isServer, hooks, phase, orig, config, fired, raw, result, tool>>

\* a response interceptor that reads the url of one config kept for the
\* client (that of the lowest call in flight) instead of response.config
responseInterceptorLastConfig(i) ==
  /\ calls[i].phase = "sent"
  /\ \E payload \in ConcurrentPayloads :
       LET response == [data |-> payload, config |-> calls[i].config]
           lowest   == Min({ j \in CallIds : calls[j].phase \in {"sent", "done"} })
           seen     == [data |-> payload, config |-> calls[lowest].config]
           outcome  == responseInterceptors(seen)
       IN  calls' = WithCall(i, [phase |-> "done", orig |-> calls[i].orig,
                                 config |-> calls[i].config,
                                 raw |-> [kind |-> "response", value |-> response],
                                 result |->
                                   IF outcome.kind = "resolved"
                                   THEN [kind |-> "resolved",
                                         value |-> [data |-> outcome.value.data,
                                                    config |-> calls[i].config]]
                                   ELSE outcome])
  /\ UNCHANGED <<baseUrl, isServer, hooks, phase, orig, config, fired, raw, result, tool>>

\* the transport completes call i with a response and the response
\* interceptors run on it
responseInterceptor(i) ==
  /\ calls[i].phase = "sent"
  /\ \E payload \in ConcurrentPayloads :
       LET response == [data |-> payload, config |-> calls[i].config]
       IN  calls' = WithCall(i, [phase |-> "done", orig |-> calls[i].orig,
                                 config |-> calls[i].config,
                                 raw |-> [kind |-> "response", value |-> response],
                                 result |-> responseInterceptors(response)])
  /\ UNCHANGED <<baseUrl, isServer, hooks, phase, orig, config, fired, raw, result, tool>>

\* the transport fails call i and the error interceptors run on the error
errorInterceptor(i) ==
  /\ calls[i].phase = "sent"
  /\ \E error \in ConcurrentErrors :
       calls' = WithCall(i, [phase |-> "done", orig |-> calls[i].orig,
                             config |-> calls[i].config,
                             raw |-> [kind |-> "error", value |-> error],
                             result |-> errorInterceptors(error)])
  /\ UNCHANGED <<baseUrl, isServer, hooks, phase, orig, config, fired, raw, result, tool>>

\* the call site of call i has its result; the slot is free again
settle(i) ==
  /\ calls[i].phase = "done"
  /\ calls' = WithCall(i, IdleCall)
  /\ UNCHANGED <<baseUrl, isServer, hooks, phase, orig, config, fired, raw, result, tool>>

NextConcurrent ==
  \/ install
  \/ \E i \in CallIds : issue(i)
  \/ \E i \in CallIds : requestInterceptor(i)
  \/ \E i \in CallIds : responseInterceptor(i)
  \/ \E i \in CallIds : errorInterceptor(i)
  \/ \E i \in CallIds : settle(i)

SpecConcurrent == Init /\ [][NextConcurrent]_vars

---------------------------------------------------------------------------
(* The tool getPullRequestDiff                                             *)

\* lengths of the diff text the backend returns, around the 50KB threshold
DiffSizes == {0, 1200, 49999, 50000, 50001, 80000}

\* the files of a pull request with n changed files, as diffstat lists them
Files(n) == [i \in 1..n |-> i]

\* files.slice(0, end)
Slice(files, end) == SubSeq(files, 1, Min({end, Len(files)}))

\* a version of TooLarge with the threshold at 60000 characters
TooLargeAbove60000(diffSize) == diffSize > 60000

\* diffSize > 50000
TooLarge(diffSize) == diffSize > 50000

\* totalFiles > 30
TooManyFiles(totalFiles) == totalFiles > 30

\* the summary returned in place of the diff when there are too many files
Summary(totalFiles, filesChanged) ==
  [kind |-> "summary", totalFiles |-> totalFiles, filesChanged |-> filesChanged,
   truncated |-> TRUE]

\* the summary returned in place of a diff that is too large: totalFiles is
\* the number of files, or "unknown" without a diffstat
SizeSummary(totalFiles, filesChanged, diffSize) ==
  [kind |-> "summary", totalFiles |-> totalFiles, filesChanged |-> filesChanged,
   truncated |-> TRUE, diffSize |-> diffSize]

\* the diff text itself, by its length
DiffText(diffSize) == [kind |-> "text", length |-> diffSize]

\* the McpError 'Failed to get pull request diff'
DiffError == [kind |-> "error"]

\* the tool is called: it first asks for the diffstat
getPullRequestDiff ==
  /\ tool.pc = "idle"
  /\ tool' = [pc |-> "diffstat"]
  /\ UNCHANGED <<baseUrl, isServer, hooks, phase, orig, config, fired, raw, result, calls>>

\* the diffstat call resolves with a page of n files
diffstatResolves ==
  /\ tool.pc = "diffstat"
  /\ \E n \in 0..MaxFiles :
       tool' = [pc |-> "counted", diffstat |-> "ok", files |-> Files(n),
                totalFiles |-> n]
  /\ UNCHANGED <<baseUrl, isServer, hooks, phase, orig, config, fired, raw, result, calls>>

\* the diffstat call fails: the tool reads the diff to check its size
diffstatFails ==
  /\ tool.pc = "diffstat"
  /\ tool' = [pc |-> "fallback", diffstat |-> "failed"]
  /\ UNCHANGED <<baseUrl, isServer, hooks, phase, orig, config, fired, raw, result, calls>>

\* after a failed diffstat the diff is read: a summary without files when
\* it is too large, else the diff
fallbackDiffResolves ==
  /\ tool.pc = "fallback"
  /\ \E diffSize \in DiffSizes :
       tool' = [pc |-> "returned", diffstat |-> "failed", diff |-> "ok",
                diffSize |-> diffSize,
                outcome |-> IF TooLarge(diffSize)
                            THEN SizeSummary("unknown", << >>, diffSize)
                            ELSE DiffText(diffSize)]
  /\ UNCHANGED <<baseUrl, isServer, hooks, phase, orig, config, fired, raw, result, calls>>

\* after a failed diffstat the diff call fails too: throw diffError
fallbackDiffFails ==
  /\ tool.pc = "fallback"
  /\ tool' = [pc |-> "returned", diffstat |-> "failed", diff |-> "failed",
              outcome |-> DiffError]
  /\ UNCHANGED <<baseUrl, isServer, hooks, phase, orig, config, fired, raw, result, calls>>

\* too many files: the summary of the first 30 is returned, the diff is
\* not read
summarize ==
  /\ tool.pc = "counted"
  /\ TooManyFiles(tool.totalFiles)
  /\ tool' = [pc |-> "returned", diffstat |-> "ok", diff |-> "none",
              files |-> tool.files, totalFiles |-> tool.totalFiles,
              outcome |-> Summary(tool.totalFiles, Slice(tool.files, 30))]
  /\ UNCHANGED <<baseUrl, isServer, hooks, phase, orig, config, fired, raw, result, calls>>

\* a smaller pull request: the diff is read, and its size checked again
fullDiffResolves ==
  /\ tool.pc = "counted"
  /\ ~TooManyFiles(tool.totalFiles)
  /\ \E diffSize \in DiffSizes :
       tool' = [pc |-> "returned", diffstat |-> "ok", diff |-> "ok",
                files |-> tool.files, totalFiles |-> tool.totalFiles,
                diffSize |-> diffSize,
                outcome |-> IF TooLarge(diffSize)
                            THEN SizeSummary(tool.totalFiles,
                                             Slice(tool.files, 30), diffSize)
                            ELSE DiffText(diffSize)]
  /\ UNCHANGED <<baseUrl, isServer, hooks, phase, orig, config, fired, raw, result, calls>>

\* a smaller pull request whose diff call fails: the outer catch
fullDiffFails ==
  /\ tool.pc = "counted"
  /\ ~TooManyFiles(tool.totalFiles)
  /\ tool' = [pc |-> "returned", diffstat |-> "ok", diff |-> "failed",
              files |-> tool.files, totalFiles |-> tool.totalFiles,
              outcome |-> DiffError]
  /\ UNCHANGED <<baseUrl, isServer, hooks, phase, orig, config, fired, raw, result, calls>>

\* the caller has the outcome; the tool can be called again
toolReturns ==
  /\ tool.pc = "returned"
  /\ tool' = IdleTool
  /\ UNCHANGED <<baseUrl, isServer, hooks, phase, orig, config, fired, raw, result, calls>>

NextDiff ==
  \/ getPullRequestDiff
  \/ diffstatResolves
  \/ diffstatFails
  \/ fallbackDiffResolves
  \/ fallbackDiffFails
  \/ summarize
  \/ fullDiffResolves
  \/ fullDiffFails
  \/ toolReturns

SpecDiff == Init /\ [][NextDiff]_vars

---------------------------------------------------------------------------
(* Properties of the request side                                          *)

\* the request hook has rewritten the call and the transport holds the result
SentByServer == phase \in {"sent", "done"} /\ hooks

ServerRepoPath(ws, r) == "/rest/api/1.0/projects/" \o ws \o "/repos/" \o r

\* C1: in Server dialect /repositories/ws becomes exactly
\* /rest/api/1.0/projects/ws/repos and /repositories/ws/r becomes exactly
\* /rest/api/1.0/projects/ws/repos/r, for every workspace and repo segment.
C1_RepoPathsRewritten ==
  SentByServer =>
    \A ws \in WsNames :
      /\ orig.url = "/repositories/" \o ws
           => config.url = "/rest/api/1.0/projects/" \o ws \o "/repos"
      /\ \A r \in RepoNames :
           orig.url = RepoPath(ws, r) => config.url = ServerRepoPath(ws, r)

C1_Witness ==
  /\ SentByServer
  /\ orig.url = "/repositories/ws1/diffstat"
  /\ config.url = "/rest/api/1.0/projects/ws1/repos/diffstat"

\* C2: in Server dialect, for every ws, r and n, the rewrite of
\* /repositories/ws/r/pullrequests/n/diffstat contains /pull-requests/n/changes
\* and contains no /diffstat.
C2_DiffstatToChanges ==
  SentByServer =>
    \A ws \in WsNames, r \in RepoNames, n \in PrIds :
      orig.url = PrPath(ws, r, n) \o "/diffstat"
        => /\ Includes(config.url, "/pull-requests/" \o n \o "/changes")
           /\ ~Includes(config.url, "/diffstat")

\* C3: in Server dialect, for every ws, r and n, both
\* /repositories/ws/r/pullrequests/n/comments and .../activity become exactly
\* /rest/api/1.0/projects/ws/repos/r/pull-requests/n/activities.
C3_CommentsAndActivityToActivities ==
  SentByServer =>
    \A ws \in WsNames, r \in RepoNames, n \in PrIds :
      orig.url \in {PrPath(ws, r, n) \o "/comments", PrPath(ws, r, n) \o "/activity"}
        => config.url = ServerRepoPath(ws, r) \o "/pull-requests/" \o n \o "/activities"

\* C4: in Server dialect every path /repositories/a/b/<rest> that a rule
\* changes comes out with the prefix /rest/api/1.0/projects/a/repos/b, and no
\* rule outputs a path that still starts with /repositories/.
C4_RewrittenPathsLeaveRepositories ==
  SentByServer =>
    /\ \A a \in WsNames, b \in RepoNames :
         (StartsWith(orig.url, RepoPath(a, b) \o "/") /\ config.url # orig.url)
           => StartsWith(config.url, ServerRepoPath(a, b))
    /\ fired # {} => ~StartsWith(config.url, "/repositories/")

\* C5: for every canonical path either exactly one rule is applied (the first
\* in priority order whose test holds) or none is and the path is sent as it
\* was; the path sent is the rewrite of the path alone, whatever the method,
\* parameters, body and base URL of the call.
C5_OneRuleOrUnchanged ==
  (SentByServer /\ orig.url # "") =>
    /\ Cardinality(fired) <= 1
    /\ fired = {} => config.url = orig.url
    /\ \A rule \in fired :
         /\ RuleTest(rule, orig.url)
         /\ config.url = RuleApply(rule, orig.url)
         /\ \A i, j \in 1..Len(RuleOrder) :
              (RuleOrder[j] = rule /\ i < j) => ~RuleTest(RuleOrder[i], orig.url)
    /\ fired = {} => \A i \in 1..Len(RuleOrder) : ~RuleTest(RuleOrder[i], orig.url)

\* a path that matches the tests of three rules, of which only the first is applied
C5_Witness ==
  /\ SentByServer
  /\ orig.url = "/repositories/ws1/repo1/pullrequests/5/diffstat"
  /\ RuleTest("diff", orig.url) /\ RuleTest("pullRequests", orig.url)
  /\ fired = {"diffstat"}

OtherKeys(o) == IF o.t = "object" THEN DOMAIN o.f \ {"pagelen", "limit", "state"} ELSE {}

\* C6: transformParams renames pagelen to limit (no pagelen key in the output,
\* limit carries the pagelen value), maps state SUPERSEDED to DECLINED, and
\* leaves every other state value and every other parameter unchanged.
C6_ParamsRewritten ==
  (SentByServer /\ orig.url # "" /\ Truthy(orig.params)) =>
    /\ ~HasKey(config.params, "pagelen")
    /\ HasKey(orig.params, "pagelen")
         => Get(config.params, "limit") = Get(orig.params, "pagelen")
    /\ ~HasKey(orig.params, "pagelen")
         => /\ HasKey(config.params, "limit") = HasKey(orig.params, "limit")
            /\ Get(config.params, "limit") = Get(orig.params, "limit")
    /\ HasKey(config.params, "state") = HasKey(orig.params, "state")
    /\ Get(config.params, "state") =
         IF Get(orig.params, "state") = JStr("SUPERSEDED") THEN JStr("DECLINED")
         ELSE Get(orig.params, "state")
    /\ OtherKeys(config.params) = OtherKeys(orig.params)
    /\ \A k \in OtherKeys(orig.params) : Get(config.params, k) = Get(orig.params, k)

C6_Witness ==
  /\ SentByServer
  /\ orig.params = JObj([pagelen |-> JNum(25), limit |-> JNum(10), q |-> JStr("x")])
  /\ config.params = JObj([limit |-> JNum(25), q |-> JStr("x")])

\* the source branch a body names, as sourceBranch or as source.branch.name
NamedSource(data) ==
  Or(Get(data, "sourceBranch"), Get(Get(Get(data, "source"), "branch"), "name"))

\* the target branch a body names, as targetBranch or as destination.branch.name
NamedTarget(data) ==
  Or(Get(data, "targetBranch"), Get(Get(Get(data, "destination"), "branch"), "name"))

\* the project segment of a rewritten path /rest/api/1.0/projects/<key>/...
ProjectSegment(url) == Segment(Drop(url, Len("/rest/api/1.0/projects/")))

\* the repo segment of a rewritten path /rest/api/1.0/projects/<key>/repos/<slug>/...
RepoSegment(url) ==
  Segment(Drop(url, Len("/rest/api/1.0/projects/" \o ProjectSegment(url) \o "/repos/")))

RefId(body, ref)   == Get(Get(body, ref), "id")
RefSlug(body, ref) == Get(Get(Get(body, ref), "repository"), "slug")
RefKey(body, ref)  == Get(Get(Get(Get(body, ref), "repository"), "project"), "key")

\* the call is a POST or PUT to a pull-request path with a body naming a source branch
PullRequestCreation ==
  /\ SentByServer
  /\ orig.url # ""
  /\ config.method \in {"post", "put"}
  /\ Includes(config.url, "/pull-requests")
  /\ Truthy(NamedSource(orig.data))

\* C7, the branch references: fromRef.id is refs/heads/s and toRef.id is
\* refs/heads/t, t being 'master' when the body names no target.
C7_BranchRefs ==
  PullRequestCreation =>
    /\ RefId(config.data, "fromRef")
         = JStr("refs/heads/" \o NamedSource(orig.data).s)
    /\ RefId(config.data, "toRef")
         = JStr("refs/heads/" \o Or(NamedTarget(orig.data), JStr("master")).s)

\* C7, the repository of the references: slug and project key are the repo
\* and project segments of the rewritten path.
C7_RefRepository ==
  PullRequestCreation =>
    \A ref \in {"fromRef", "toRef"} :
      /\ RefSlug(config.data, ref) = JStr(RepoSegment(config.url))
      /\ RefKey(config.data, ref) = JStr(ProjectSegment(config.url))

\* C7: a POST or PUT to a pull-request path whose body names a source branch
\* s and optionally a target t is sent with fromRef.id = refs/heads/s,
\* toRef.id = refs/heads/t (t = 'master' when omitted) and with the slug and
\* project key of both references equal to the repo and project segments of
\* the rewritten path.
C7_PullRequestBody == C7_BranchRefs /\ C7_RefRepository

\* the body createPullRequest posts for a reviewer list
IsCreatePullRequestCall(rv) ==
  \E ws \in WsNames, r \in RepoNames, s \in Branches :
    orig = Config("post", RepoPath(ws, r) \o "/pullrequests", JUndef,
                  createPullRequestBody("T", "D", s, "main", rv))

\* C8: createPullRequest against a Server backend with reviewers [u1..uk]
\* sends reviewers = [{user:{name:u1}}, ..., {user:{name:uk}}], each name the
\* username string, in the same order.
C8_ReviewersWrapped ==
  SentByServer =>
    \A rv \in SeqsUpTo(Usernames, MaxReviewers) :
      IsCreatePullRequestCall(rv)
        => Get(config.data, "reviewers")
             = JArr([i \in 1..Len(rv) |-> JObj([user |-> JObj([name |-> JStr(rv[i])])])])

\* C9: the body is sent verbatim whenever the method is not POST/PUT, or the
\* rewritten path does not contain the pull-request segment, or the body
\* names no source branch.
C9_OtherBodiesVerbatim ==
  (SentByServer /\ (\/ config.method \notin {"post", "put"}
                    \/ ~Includes(config.url, "/pull-requests")
                    \/ ~Truthy(NamedSource(orig.data))))
    => config.data = orig.data

\* a merge body posted to a pull-request path is sent as it is
C9_Witness ==
  /\ SentByServer
  /\ config.method = "post"
  /\ config.url = "/rest/api/1.0/projects/ws1/repos/repo1/pull-requests/5/merge"
  /\ orig.data = JObj([message |-> JStr("M"), merge_strategy |-> JStr("squash")])
  /\ config.data = orig.data

---------------------------------------------------------------------------
(* Properties of the Cloud dialect                                         *)

CloudBaseUrls == {"https://api.bitbucket.org/2.0"}

\* C10: an adapter constructed with a Cloud base URL registers no hooks, so
\* in every call the request config (URL, params, body) reaches the transport
\* unchanged and the response payload or error payload reaches the call site
\* unchanged.
C10_CloudPassThrough ==
  baseUrl \in CloudBaseUrls =>
    /\ ~hooks
    /\ phase \in {"sent", "done"} => config = orig
    /\ (phase = "done" /\ raw.kind = "response")
         => result = [kind |-> "resolved", value |-> raw.value]
    /\ (phase = "done" /\ raw.kind = "error")
         => result = [kind |-> "rejected", value |-> raw.value]

\* a Cloud call whose path, parameters and payload the Server hooks would
\* all have rewritten
C10_Witness ==
  /\ baseUrl \in CloudBaseUrls
  /\ phase = "done"
  /\ orig.url = "/repositories/ws1/repo1/pullrequests/5/diffstat"
  /\ orig.params = JObj([pagelen |-> JNum(25)])
  /\ config = orig
  /\ raw.kind = "response"
  /\ raw.value.data = Page(<<ServerChange>>)
  /\ result.value = raw.value

---------------------------------------------------------------------------
(* Properties of the adapter state                                         *)

\* the index of the first character of s, from position i on, that is in the
\* set stops; Len(s) + 1 when there is none
FirstOf(s, i, stops) ==
  Min({ k \in i..Len(s) : SubSeq(s, k, k) \in stops } \cup {Len(s) + 1})

\* the hostname of a URL: what stands between "://" and the next of / : ? #
Hostname(url) ==
  LET k     == IndexOf(url, "://")
      start == IF k = 0 THEN 1 ELSE k + 3
  IN  SubSeq(url, start, FirstOf(url, start, {"/", ":", "?", "#"}) - 1)

\* the hostnames of Bitbucket Cloud: the site and its API host
CloudHosts == {"bitbucket.org", "api.bitbucket.org"}

\* C11: for every base URL the adapter is in Server dialect if and only if
\* the hostname of the URL is not a Cloud hostname, whatever else the URL
\* string contains.
C11_DialectByHostname ==
  isServer <=> Hostname(baseUrl) \notin CloudHosts

\* C12: after construction no hook changes the dialect flag or the base
\* URL, and a hook writes only to the call it was invoked for: a step
\* changes at most one call, the calls of the other slots stay as they were,
\* and the response and error hooks leave the request config of their call.
C12_HooksWriteOwnCall ==
  [][ /\ baseUrl' = baseUrl
      /\ isServer' = isServer
      /\ \A i, j \in CallIds :
           (i # j /\ calls'[i] # calls[i]) => calls'[j] = calls[j]
      /\ \A i \in CallIds :
           calls[i].phase = "sent" =>
             /\ calls'[i].config = calls[i].config
             /\ calls'[i].orig = calls[i].orig ]_vars

\* one call has its normalized response while another, rewritten by the
\* request hook, still waits for the transport
C12_Witness ==
  /\ hooks
  /\ calls[1].phase = "done"
  /\ calls[1].result.kind = "resolved"
  /\ calls[1].result.value.data # calls[1].raw.value.data
  /\ calls[2].phase = "sent"
  /\ calls[2].config.url # calls[2].orig.url
  /\ calls[2].config.url # calls[1].config.url

---------------------------------------------------------------------------
(* Properties of concurrent calls                                          *)

\* C13: whatever the interleaving of the hooks of the calls in flight, the
\* config each call sends and the response or error each call site gets are
\* those the hooks compute from that call alone: the sent config from the
\* issued config, the result from the response (with the config of the call)
\* or the error the transport produced for it.
C13_CallsIndependent ==
  \A i \in CallIds :
    /\ calls[i].phase \in {"sent", "done"}
         => calls[i].config = requestInterceptors(calls[i].orig)
    /\ (calls[i].phase = "done" /\ calls[i].raw.kind = "response")
         => /\ calls[i].raw.value.config = calls[i].config
            /\ calls[i].result = responseInterceptors(calls[i].raw.value)
    /\ (calls[i].phase = "done" /\ calls[i].raw.kind = "error")
         => calls[i].result = errorInterceptors(calls[i].raw.value)

\* two Server calls done at the same time, for different paths: a
\* repository list and a diffstat, each with its own normalized payload
C13_Witness ==
  /\ hooks
  /\ calls[1].phase = "done" /\ calls[2].phase = "done"
  /\ calls[1].orig.url = "/repositories/ws1/repo1/pullrequests/5/diffstat"
  /\ calls[2].orig.url = "/repositories/ws1"
  /\ calls[1].raw.kind = "response" /\ calls[2].raw.kind = "response"
  /\ calls[1].raw.value.data = Page(<<ServerChange>>)
  /\ calls[2].raw.value.data = Page(<<ServerRepo>>)
  /\ calls[1].result.value.data = Page(<<Change(ServerChange)>>)
  /\ calls[2].result.value.data = Page(<<Repository(baseUrl, ServerRepo)>>)

---------------------------------------------------------------------------
(* Properties of the error hook                                            *)

\* the error hook of the Server dialect has run on the error of the call
ErrorHooked == phase = "done" /\ hooks /\ raw.kind = "error"

\* error.response.data
Body(error) == Get(Get(error, "response"), "data")

\* e is the error object e0 with at most its response body changed
SameButBody(e, e0) ==
  /\ e.t = "object" /\ e0.t = "object"
  /\ DOMAIN e.f = DOMAIN e0.f
  /\ \A k \in DOMAIN e.f \ {"response"} : e.f[k] = e0.f[k]
  /\ HasKey(e0, "response") =>
       LET r == e.f["response"]  r0 == e0.f["response"]
       IN  /\ r.t = r0.t
           /\ r.t = "object" =>
                /\ DOMAIN r.f \ {"data"} = DOMAIN r0.f \ {"data"}
                /\ \A k \in DOMAIN r.f \ {"data"} : r.f[k] = r0.f[k]

\* C14: on every failed call in Server dialect the error hook ends in a
\* rejection that carries the error object the transport raised, with at
\* most its response body reshaped, for every error payload shape and for
\* an errors list of any length.
C14_RejectsWithSameError ==
  ErrorHooked =>
    /\ result.kind = "rejected"
    /\ SameButBody(result.value, raw.value)

\* the payload has an errors list with a first entry
HasFirstError(error) ==
  /\ Get(Body(error), "errors").t = "array"
  /\ Len(Get(Body(error), "errors").a) > 0

FirstError(error) == Get(Body(error), "errors").a[1]

\* a field of an entry counts as absent when it is missing or empty
Absent(v) == ~Truthy(v)

\* C15: when the error payload has an errors list, the payload becomes
\* {type: 'error', error: {message, detail}} built from the first entry:
\* message is the message of the entry or, if absent, its exceptionName;
\* detail is the context of the entry or, if absent, its message.
C15_ErrorBodyFromFirstEntry ==
  (ErrorHooked /\ HasFirstError(raw.value)) =>
    LET entry == FirstError(raw.value)
    IN  Body(result.value) =
          JObj([type  |-> JStr("error"),
                error |-> JObj([message |-> IF Absent(Get(entry, "message"))
                                            THEN Get(entry, "exceptionName")
                                            ELSE Get(entry, "message"),
                                detail  |-> IF Absent(Get(entry, "context"))
                                            THEN Get(entry, "message")
                                            ELSE Get(entry, "context")])])

\* an errors list of two entries, the first without message: the message is
\* its exceptionName and the second entry is not used
C15_Witness ==
  /\ ErrorHooked
  /\ Body(raw.value) = JObj([errors |-> JArr(<<JObj([exceptionName |-> JStr("E")]),
                                               JObj([message |-> JStr("Z")])>>)])
  /\ Get(Get(Body(result.value), "error"), "message") = JStr("E")
  /\ Get(Get(Body(result.value), "error"), "detail") = JUndef

\* C16: an error with no response, with no response body, or with a
\* response body without an errors field is rejected as it is: the error
\* object and its payload are unchanged.
C16_OtherErrorsUnchanged ==
  (ErrorHooked /\ (\/ ~Truthy(Get(raw.value, "response"))
                   \/ ~Truthy(Body(raw.value))
                   \/ ~HasKey(Body(raw.value), "errors")))
    => result = [kind |-> "rejected", value |-> raw.value]

\* a 404 whose body has a message and no errors field
C16_Witness ==
  /\ ErrorHooked
  /\ Body(raw.value) = JObj([message |-> JStr("not found")])
  /\ result.value = raw.value

---------------------------------------------------------------------------
(* Properties of the response hook                                         *)

\* the response hook of the Server dialect has run on the response of the call
ResponseHooked == phase = "done" /\ hooks /\ raw.kind = "response"

\* the payload the transport delivered
Payload == raw.value.data

\* the payload goes to transformPaginatedResponse
Paginated == Truthy(Payload) /\ Truthy(Get(Payload, "values"))

\* payloads without the fields a mapping reads: a commits collection, and
\* an entity with id but no fromRef
PayloadsWithoutFields ==
  {Page(<<ServerCommit>>), JObj([id |-> JNum(5), title |-> JStr("T")])}

\* C17: for every successful response in Server dialect, whatever the
\* rewritten URL and the payload shape, the response hook returns without
\* throwing, and a payload that lacks the fields a mapping needs is returned
\* raw.
C17_ResponseHookNeverThrows ==
  ResponseHooked =>
    /\ result.kind = "resolved"
    /\ Payload \in PayloadsWithoutFields => result.value.data = Payload

\* the keys tested by the rules of transformSingleResponse whose url test holds
RequiredKeys(url) ==
  (IF MatchProjectEnd(url) THEN {"key"} ELSE {})
    \cup (IF Includes(url, "/repos/") /\ ~Includes(url, "/pull-requests")
          THEN {"slug"} ELSE {})
    \cup (IF Includes(url, "/pull-requests/") THEN {"id"} ELSE {})

\* C18: a single-entity payload without the keys (key, slug, id) required
\* by the rule its URL selects is returned unchanged, for every URL, and so
\* is a payload that is not an object, such as diff text.
C18_UnrecognizedSingleUnchanged ==
  (/\ ResponseHooked
   /\ ~Paginated
   /\ \A k \in RequiredKeys(config.url) : ~Truthy(Get(Payload, k)))
    => result = [kind |-> "resolved", value |-> raw.value]

\* a payload with key and id but no slug, delivered for a repository path
\* whose rule tests slug, is returned as it came
C18_Witness ==
  /\ ResponseHooked
  /\ config.url = "/rest/api/1.0/projects/ws1/repos/repo1"
  /\ Payload = ServerProject
  /\ result.value.data = Payload

\* the rewritten url is the bare pull-request collection of a repository
BarePullRequestCollection(url) ==
  \E ws \in WsNames, r \in RepoNames :
    url \in {ServerRepoPath(ws, r) \o "/pull-requests",
             ServerRepoPath(ws, r) \o "/pull-requests/"}

\* the mappings applied to the paginated payload of the call
Applied == appliedMappings(baseUrl, config.url, Payload)

\* C19: the PullRequest list mapping is applied to a paginated response
\* exactly when the rewritten URL is the bare pull-request collection of a
\* repository, for every project key and repo slug; the collections of the
\* sub-resources of a pull request are never reshaped as pull requests.
C19_PullRequestListOnBareCollection ==
  (ResponseHooked /\ config.url # "" /\ Paginated) =>
    ("pullRequests" \in Applied <=> BarePullRequestCollection(config.url))

\* C20: for every rewritten URL at most one of the five paginated mappings
\* is applied to a response.
C20_AtMostOneMapping ==
  (ResponseHooked /\ config.url # "" /\ Paginated) => Cardinality(Applied) <= 1

---------------------------------------------------------------------------
(* Properties of the normalized entities                                   *)

\* the call is a GET of the path url
Got(url) == orig.method = "get" /\ orig.url = url

\* the repositories of a payload delivered for a repository list or a
\* single repository: the values of a page, or the entity itself
RepositoriesOf(payload) ==
  IF Truthy(Get(payload, "values")) THEN Get(payload, "values").a ELSE <<payload>>

\* the payload is a page of repositories or one repository, each carrying
\* a project object
RepositoryPayload(payload) ==
  /\ payload.t = "object"
  /\ Truthy(Get(payload, "values")) => Get(payload, "values").t = "array"
  /\ Len(RepositoriesOf(payload)) > 0
  /\ \A i \in 1..Len(RepositoriesOf(payload)) :
       /\ Truthy(Get(RepositoriesOf(payload)[i], "slug"))
       /\ Get(RepositoriesOf(payload)[i], "project").t = "object"

\* the normalized repository e has the full_name and is_private of repo
RepositoryNormalized(e, repo) ==
  /\ Get(e, "full_name") =
       JStr(Get(Get(repo, "project"), "key").s \o "/" \o Get(repo, "slug").s)
  /\ Get(e, "is_private") = JBool(~Truthy(Get(repo, "public")))

\* C21: a Server repository delivered for the repository list of a project
\* or for a single repository, and carrying a project object, is normalized
\* with full_name = '<project key>/<slug>' and is_private = the negation of
\* the public flag of the backend.
C21_RepositoryNormalized ==
  (/\ ResponseHooked
   /\ RepositoryPayload(Payload)
   /\ \E ws \in WsNames :
        \/ Got("/repositories/" \o ws) /\ Paginated
        \/ \E r \in RepoNames : Got(RepoPath(ws, r)) /\ ~Paginated)
    => /\ result.kind = "resolved"
       /\ Len(RepositoriesOf(result.value.data)) = Len(RepositoriesOf(Payload))
       /\ \A i \in 1..Len(RepositoriesOf(Payload)) :
            RepositoryNormalized(RepositoriesOf(result.value.data)[i],
                                 RepositoriesOf(Payload)[i])

\* a list of a public and a private repository of two projects
C21_Witness ==
  /\ ResponseHooked
  /\ Got("/repositories/ws1")
  /\ Payload = Page(<<ServerRepoPublic, ServerRepo>>)
  /\ Get(Get(result.value.data, "values").a[1], "full_name") = JStr("OSS/pub")
  /\ Get(Get(result.value.data, "values").a[1], "is_private") = JBool(FALSE)
  /\ Get(Get(result.value.data, "values").a[2], "full_name") = JStr("PRJ/r")
  /\ Get(Get(result.value.data, "values").a[2], "is_private") = JBool(TRUE)

\* the payload is a collection answered on an activities URL to which the
\* activities mapping alone applies
ActivitiesHooked ==
  /\ ResponseHooked
  /\ Paginated
  /\ Get(Payload, "values").t = "array"
  /\ Applied = {"activities"}

\* the entries of the activities collection, and those the caller receives
BackendActivities == Get(Payload, "values").a
DeliveredValues == Get(result.value.data, "values").a

IsCommented(activity) == Get(activity, "action") = JStr("COMMENTED")

\* the COMMENTED entries of the collection, in their original order
Commented == SelectSeq(BackendActivities, IsCommented)

\* the entry is in comment shape
CommentShaped(e) ==
  /\ Get(e, "type") = JStr("pullrequest_comment")
  /\ HasKey(e, "content")
  /\ ~HasKey(e, "update")

\* the entry is an activity-log entry
ActivityLogShaped(e) == HasKey(e, "update") /\ ~HasKey(e, "type")

---------------------------------------------------------------------------
(* Properties of the tools                                                 *)

\* the payload is a page of the activity history of a pull request
ActivityHistory(payload) ==
  /\ Get(payload, "values").t = "array"
  /\ \A i \in 1..Len(Get(payload, "values").a) :
       HasKey(Get(payload, "values").a[i], "action")

\* the call getPullRequestComments makes, sent to the activities of the pull
\* request and answered by the Server backend with its activity history
getPullRequestCommentsAnswered ==
  /\ ResponseHooked
  /\ \E ws \in WsNames, r \in RepoNames, n \in PrIds :
       /\ Got(PrPath(ws, r, n) \o "/comments")
       /\ config.url = ServerRepoPath(ws, r) \o "/pull-requests/" \o n \o "/activities"
  /\ ActivityHistory(Payload)

\* the call getPullRequestActivity makes, sent to the activities of the pull
\* request and answered by the Server backend with its activity history
getPullRequestActivityAnswered ==
  /\ ResponseHooked
  /\ \E ws \in WsNames, r \in RepoNames, n \in PrIds :
       /\ Got(PrPath(ws, r, n) \o "/activity")
       /\ config.url = ServerRepoPath(ws, r) \o "/pull-requests/" \o n \o "/activities"
  /\ ActivityHistory(Payload)

\* C23: getPullRequestComments against a Server backend returns only
\* comments: every entry of its result is comment-shaped, with type
\* 'pullrequest_comment', for every activity history of the pull request,
\* including one with no COMMENTED activity.
C23_CommentsOnly ==
  getPullRequestCommentsAnswered =>
    /\ result.kind = "resolved"
    /\ Get(result.value.data, "values").t = "array"
    /\ \A i \in 1..Len(DeliveredValues) : CommentShaped(DeliveredValues[i])

\* C24: getPullRequestActivity against a Server backend returns one
\* activity-log entry for each backend activity, for every activity history,
\* including ones that mix COMMENTED with other actions.
C24_ActivityLogComplete ==
  getPullRequestActivityAnswered =>
    /\ result.kind = "resolved"
    /\ Get(result.value.data, "values").t = "array"
    /\ Len(DeliveredValues) = Len(BackendActivities)
    /\ \A i \in 1..Len(DeliveredValues) : ActivityLogShaped(DeliveredValues[i])

\* a call of a tool has reached the backend
Sent == phase \in {"sent", "done"}

\* C25: no tool operation ever issues an HTTP DELETE request to the
\* backend: the method of every request sent is GET, POST or PUT.
C25_NoDeleteSent ==
  Sent => config.method \in {"get", "post", "put"}

\* the payload is a page of projects
ProjectPage(payload) ==
  /\ Get(payload, "values").t = "array"
  /\ \A i \in 1..Len(Get(payload, "values").a) :
       /\ Get(Get(payload, "values").a[i], "key").t = "string"
       /\ Get(Get(payload, "values").a[i], "name").t = "string"

\* the projects of the page
Projects == Get(Payload, "values").a

\* the call listWorkspaces makes, answered by the Server backend with a page
\* of projects
listWorkspacesAnswered ==
  /\ ResponseHooked
  /\ orig.method = "get"
  /\ orig.url = "/workspaces"
  /\ ProjectPage(Payload)

\* C27: listWorkspaces against a Server backend returns, for each project,
\* an entry that carries the project key verbatim in a key field together
\* with the name of the project.
C27_WorkspaceKeyExposed ==
  listWorkspacesAnswered =>
    /\ result.kind = "resolved"
    /\ Get(result.value.data, "values").t = "array"
    /\ Len(DeliveredValues) = Len(Projects)
    /\ \A i \in 1..Len(DeliveredValues) :
         /\ Get(DeliveredValues[i], "key") = Get(Projects[i], "key")
         /\ Get(DeliveredValues[i], "name") = Get(Projects[i], "name")

---------------------------------------------------------------------------
(* Properties of a repeated request hook                                   *)

\* the config the request hook returns when it runs again on the config it
\* already rewrote
Rehooked == transformRequest(config)

\* C28: applying the request hook twice to the same call gives the same
\* URL, params and body as applying it once, for every canonical input,
\* including segment names that contain the literals the rules test for.
C28_RequestHookIdempotent ==
  (SentByServer /\ orig.url # "") =>
    /\ Rehooked.url = config.url
    /\ Rehooked.params = config.params
    /\ Rehooked.data = config.data

---------------------------------------------------------------------------
(* Properties of single pull requests                                      *)

\* the payload is one pull request of the Server backend
SinglePullRequest(payload) ==
  /\ ~Paginated
  /\ Truthy(Get(payload, "id"))
  /\ ~PullRequestThrows(payload)

\* the call reads a pull request, or creates one by a post on the
\* pull-request collection of a repository
ReadsOrCreatesPullRequest ==
  \E ws \in WsNames, r \in RepoNames :
    \/ \E n \in PrIds : Got(PrPath(ws, r, n))
    \/ orig.method = "post" /\ orig.url = RepoPath(ws, r) \o "/pullrequests"

\* C29: every single pull request the Server backend returns is delivered
\* in canonical PullRequest shape, with the field mapping of a list element,
\* whether it answers the GET of an element or a creation POST on the
\* pull-request collection path.
C29_SinglePullRequestCanonical ==
  (ResponseHooked /\ ReadsOrCreatesPullRequest /\ SinglePullRequest(Payload))
    => /\ result.kind = "resolved"
       /\ result.value.data = PullRequest(Payload)

---------------------------------------------------------------------------
(* Properties of getPullRequestDiff                                        *)

\* the tool has returned
Returned == tool.pc = "returned"

\* the tool has returned and the diffstat told the number of files
ReturnedCounted == Returned /\ tool.diffstat = "ok"

\* C26: getPullRequestDiff returns a summary in place of the full diff
\* exactly for pull requests with more than 50 changed files, and the
\* filesChanged of the summary lists the first 50 files.
C26_SummaryAbove50Files ==
  (ReturnedCounted /\ tool.outcome.kind # "error") =>
    /\ tool.outcome.kind = "summary" <=> tool.totalFiles > 50
    /\ tool.outcome.kind = "summary" =>
         tool.outcome.filesChanged = Slice(tool.files, 50)

=============================================================================
